---- MODULE Spec2Model ----
(***************************************************************************)
(* Discrete environments of sparse_mdp/environment.py: the four world      *)
(* builders (GraphWorld, Gridworld, NoisyGridworld, Taskworld) and the     *)
(* stepping interface of DiscreteEnvironment (reset, act).                 *)
(*                                                                         *)
(* Probabilities are exact rationals, written as integer multiples of      *)
(* 1/One.  Indices are zero-based, as in the code.                         *)
(***************************************************************************)
EXTENDS Integers, Sequences, FiniteSets, TLC

\* ---------------------------------------------------------------- bounds
\* A world has at most MaxCells grid locations (shape[0] * shape[1]).
MaxCells == 4
\* A blocked mask has at most MaxBlocked non-zero entries.
MaxBlocked == 1
\* GraphWorld radius ranges over 0..MaxRadius.
MaxRadius == 1
\* A Taskworld has at most MaxTasks task locations.
MaxTasks == 2
\* noise ranges over k / NoiseDen, k in 0..NoiseDen.
NoiseDen == 2

\* Number of drift offsets of NoisyGridworld.__update_transitions.
NumDrift == 5

RECURSIVE Lcm1To(_)
Gcd(a, b) == CHOOSE g \in 1..a : a % g = 0 /\ b % g = 0
                 /\ \A h \in 1..a : (a % h = 0 /\ b % h = 0) => h <= g
Lcm1To(n) == IF n <= 1 THEN 1 ELSE LET l == Lcm1To(n - 1) IN (l * n) \div Gcd(n, l)

\* The probability 1.0.  Every probability the builders compute is
\* (a multiple of 1/NoiseDen) or (noise / k), k in 1..NumDrift.
One == Lcm1To(NumDrift) * NoiseDen

None == "None"

VARIABLES
    cls,            \* class of the constructed object, or None
    shape,          \* self.shape
    radius,         \* self.radius (GraphWorld)
    blocked_cells,  \* self.blocked_cells
    noise,          \* self.noise (NoisyGridworld), numerator over NoiseDen
    taskLocations,  \* self.taskLocations (Taskworld)
    locations,      \* self.locations (Taskworld)
    stateSpace,     \* self.stateSpace, the sequence of its elements
    actionSpace,    \* self.actionSpace, the sequence of its elements
    transition,     \* self.transition
    terminalStates, \* self.terminalStates
    initial_state,  \* self.initial_state
    current_state,  \* self.current_state
    result          \* the last call: its name, argument, return value, error

vars == <<cls, shape, radius, blocked_cells, noise, taskLocations, locations,
          stateSpace, actionSpace, transition, terminalStates, initial_state,
          current_state, result>>

fields == <<cls, shape, radius, blocked_cells, noise, taskLocations, locations,
            stateSpace, actionSpace, transition, terminalStates, initial_state>>

\* ------------------------------------------------------- sequences, lists
Range(s) == {s[i] : i \in DOMAIN s}

\* Variant: nothing is removed.
RemoveAll_Nothing(list, set) == list

\* list.remove for every element of a set: the list without those elements.
RemoveAll(list, set) == SelectSeq(list, LAMBDA e : e \notin set)

\* list.index(e) (zero-based): the first position holding e.
ListIndex(list, e) == (CHOOSE i \in DOMAIN list :
                          list[i] = e /\ \A j \in 1..(i - 1) : list[j] # e) - 1

\* [(x, y) for x in range(shape[0]) for y in range(shape[1])]
GridCells(shp) ==
    [k \in 1..(shp[1] * shp[2]) |-> <<(k - 1) \div shp[2], (k - 1) % shp[2]>>]

\* ------------------------------------------------- DiscreteSpace (spaces.py)
\* An index space: the ordered sequence of its elements and the inverse
\* mapping from element to zero-based index.
DiscreteSpace(elements) ==
    LET index == [e \in Range(elements) |->
                    (CHOOSE i \in DOMAIN elements : elements[i] = e) - 1]
    IN \* (the comparison has TLC sort the mapping's domain: lookups are then
       \* by hash rather than by linear scan)
       [elements |-> elements, index |-> IF index = index THEN index ELSE index]
\* space(element): the index of a registered element.
SpaceIndex(space, e) == space.index[e]
\* space[index]
SpaceElement(space, n) == space.elements[n + 1]
\* element in space
SpaceContains(space, e) == e \in DOMAIN space.index
\* space.size()
SpaceSize(space) == Len(space.elements)
\* iteration over the space
SpaceElements(space) == Range(space.elements)

\* ------------------------------------------- Transition kernel (transition.py)
\* T[s][a] is the row of (s, a): a mapping from next-state index to
\* probability; an index that was never written reads as 0.
NewTransition(nS, nA) == [s \in 0..(nS - 1) |-> [a \in 0..(nA - 1) |-> <<>>]]

TGet(T, s, a, s2) == IF s2 \in DOMAIN T[s][a] THEN T[s][a][s2] ELSE 0

TSet(T, s, a, s2, p) == [T EXCEPT ![s][a] = (s2 :> p) @@ @]

\* transition.sample(s, a): the indices the categorical draw can return.
TSample(T, s, a) == {s2 \in DOMAIN T[s][a] : T[s][a][s2] > 0}

\* ------------------------------------------------------------ blocked mask
\* The blocked argument: None (given = FALSE) or a 2-D array, described by its
\* shape and the set of its non-zero cells.
NoMask == [given |-> FALSE, shape |-> <<0, 0>>, nonzero |-> {}]

\* blocked[x, y] raises IndexError when (x, y) is outside the array.
MaskIndexError(mask, cells) ==
    /\ mask.given
    /\ \E i \in DOMAIN cells : cells[i][1] >= mask.shape[1] \/ cells[i][2] >= mask.shape[2]

BlockedCells(mask, cells) ==
    IF ~mask.given THEN {} ELSE {c \in Range(cells) : c \in mask.nonzero}

\* --------------------------------------------------- DiscreteEnvironment
\* DiscreteEnvironment.enumerate(state, action, nextState)
Enumerate(sS, aS, state, action, nextState) ==
    <<SpaceIndex(sS, state), SpaceIndex(aS, action), SpaceIndex(sS, nextState)>>

\* self.transition[enumeration] = p
TSetAt(T, e, p) == TSet(T, e[1], e[2], e[3], p)
\* self.transition[enumeration]
TGetAt(T, e) == TGet(T, e[1], e[2], e[3])

\* The initial_state argument: <<>> for None, <<s>> for the state s.
NotGiven == <<>>
Given(set) == {<<s>> : s \in set}

\* DiscreteEnvironment.__init__: stateSpace[0] of an empty space is an error.
EnvInitError(sS, initial) == initial = NotGiven /\ SpaceSize(sS) = 0

EnvInitialState(sS, initial) ==
    IF initial = NotGiven THEN SpaceElement(sS, 0) ELSE initial[1]

\* -------------------------------------------------------------- GraphWorld
\* [(i, j) for i in range(-radius, radius + 1) for j in range(-radius, radius + 1)]
GraphOffsets(r) ==
    [k \in 1..((2 * r + 1) * (2 * r + 1)) |->
        <<((k - 1) \div (2 * r + 1)) - r, ((k - 1) % (2 * r + 1)) - r>>]

GraphWorldActions(r, can_stay) ==
    IF can_stay THEN GraphOffsets(r) ELSE RemoveAll(GraphOffsets(r), {<<0, 0>>})

\* Variant: the y offset of the action is dropped.
GraphWorld_set_transitions_DropY(sS, aS, blocked, T, state, action) ==
    LET target == <<state[1] + action[1], state[2]>>
        next == IF ~SpaceContains(sS, target) \/ target \in blocked
                THEN state ELSE target
    IN TSetAt(T, Enumerate(sS, aS, state, action, next), One)

GraphWorld_set_transitions(sS, aS, blocked, T, state, action) ==
    LET target == <<state[1] + action[1], state[2] + action[2]>>
        next == IF ~SpaceContains(sS, target) \/ target \in blocked
                THEN state ELSE target
    IN TSetAt(T, Enumerate(sS, aS, state, action, next), One)

\* for state, action in [(s, a) for s in stateSpace for a in actionSpace]:
\*     self.__set_transitions(state, action)
\* A call writes only into the row of its own (state, action), so the loop
\* leaves in each row what that row's call writes.
GraphWorld_populate(sS, aS, blocked, T) ==
    [s \in DOMAIN T |-> [a \in DOMAIN T[s] |->
        GraphWorld_set_transitions(sS, aS, blocked, T,
            SpaceElement(sS, s), SpaceElement(aS, a))[s][a]]]

\* --------------------------------------------------------------- Gridworld
\* Variant: left and right exchanged.
DeltaX_Mirrored(action) == CASE action = "left" -> 1 [] action = "right" -> -1 [] OTHER -> 0

\* {'left': -1, 'right': 1}.get(action, 0)
DeltaX(action) == CASE action = "left" -> -1 [] action = "right" -> 1 [] OTHER -> 0
\* {'up': -1, 'down': 1}.get(action, 0)
DeltaY(action) == CASE action = "up" -> -1 [] action = "down" -> 1 [] OTHER -> 0

GridworldActions(can_stay) ==
    IF can_stay THEN <<"up", "right", "down", "left", "stay">>
    ELSE <<"up", "right", "down", "left">>

Gridworld_set_transitions(sS, aS, blocked, T, state, action) ==
    LET target == <<state[1] + DeltaX(action), state[2] + DeltaY(action)>>
        next == IF ~SpaceContains(sS, target) \/ target \in blocked
                THEN state ELSE target
    IN TSetAt(T, Enumerate(sS, aS, state, action, next), One)

Gridworld_populate(sS, aS, blocked, T) ==
    [s \in DOMAIN T |-> [a \in DOMAIN T[s] |->
        Gridworld_set_transitions(sS, aS, blocked, T,
            SpaceElement(sS, s), SpaceElement(aS, a))[s][a]]]

\* ---------------------------------------------------------- NoisyGridworld
\* [(0, 0), (0, -1), (0, 1), (-1, 0), (1, 0)]
DriftOffsets == << <<0, 0>>, <<0, -1>>, <<0, 1>>, <<-1, 0>>, <<1, 0>> >>

DriftTarget(state, i) ==
    <<state[1] + DriftOffsets[i][1], state[2] + DriftOffsets[i][2]>>

\* Variant: scales by noise instead of 1 - noise.
ScaleByOneMinusNoise_ByNoise(p, n) == (p * n) \div NoiseDen

\* p * (1 - noise), noise = n / NoiseDen
ScaleByOneMinusNoise(p, n) == (p * (NoiseDen - n)) \div NoiseDen
\* Variant: divides by the number of drift offsets, not of valid states.
NoiseShare_OverDrift(n, count) == (n * One) \div (NoiseDen * NumDrift)

\* noise / count
NoiseShare(n, count) == (n * One) \div (NoiseDen * count)

\* The first loop: every drift target in the state space is scaled.
RECURSIVE Noisy_scale(_, _, _, _, _, _, _)
Noisy_scale(sS, aS, T, state, action, n, i) ==
    IF i > Len(DriftOffsets) THEN T
    ELSE LET target == DriftTarget(state, i)
             e == Enumerate(sS, aS, state, action, target)
             T2 == IF SpaceContains(sS, target)
                   THEN TSetAt(T, e, ScaleByOneMinusNoise(TGetAt(T, e), n))
                   ELSE T
         IN Noisy_scale(sS, aS, T2, state, action, n, i + 1)

\* Variant: staying put is no valid next state.
ValidNextStates_NoStay(sS, blocked, state) ==
    {<<state[1] + DriftOffsets[i][1], state[2] + DriftOffsets[i][2]>> : i \in
        {j \in DOMAIN DriftOffsets :
            /\ j > 1
            /\ SpaceContains(sS, <<state[1] + DriftOffsets[j][1], state[2] + DriftOffsets[j][2]>>)
            /\ <<state[1] + DriftOffsets[j][1], state[2] + DriftOffsets[j][2]>> \notin blocked}}

ValidNextStates(sS, blocked, state) ==
    {DriftTarget(state, i) : i \in
        {j \in DOMAIN DriftOffsets :
            SpaceContains(sS, DriftTarget(state, j)) /\ DriftTarget(state, j) \notin blocked}}

\* The second loop: every valid next state gains noise / len(valid_next_states).
RECURSIVE Noisy_spread(_, _, _, _, _, _, _, _)
Noisy_spread(sS, aS, T, state, action, n, count, todo) ==
    IF todo = {} THEN T
    ELSE LET nextState == CHOOSE c \in todo : TRUE
             e == Enumerate(sS, aS, state, action, nextState)
         IN Noisy_spread(sS, aS, TSetAt(T, e, TGetAt(T, e) + NoiseShare(n, count)),
                         state, action, n, count, todo \ {nextState})

\* Variant: the noise is spread first and the scaling applied afterwards.
NoisyGridworld_update_transitions_SpreadFirst(sS, aS, blocked, T, state, action, n) ==
    LET valid == ValidNextStates(sS, blocked, state)
    IN Noisy_scale(sS, aS,
                   Noisy_spread(sS, aS, T, state, action, n, Cardinality(valid), valid),
                   state, action, n, 1)

NoisyGridworld_update_transitions(sS, aS, blocked, T, state, action, n) ==
    LET valid == ValidNextStates(sS, blocked, state)
    IN Noisy_spread(sS, aS, Noisy_scale(sS, aS, T, state, action, n, 1),
                    state, action, n, Cardinality(valid), valid)

NoisyGridworld_update(sS, aS, blocked, T, n) ==
    [s \in DOMAIN T |-> [a \in DOMAIN T[s] |->
        NoisyGridworld_update_transitions(sS, aS, blocked, T,
            SpaceElement(sS, s), SpaceElement(aS, a), n)[s][a]]]

\* --------------------------------------------------------------- Taskworld
RECURSIVE Pow2(_)
Pow2(n) == IF n = 0 THEN 1 ELSE 2 * Pow2(n - 1)

\* Variant: repeat = n + 1.
TaskSpace_OneMore(n) ==
    [k \in 1..(2 ^ (n + 1)) |-> [i \in 1..(n + 1) |-> ((k - 1) \div (2 ^ (n + 1 - i))) % 2 = 1]]

\* list(product([False, True], repeat=n))
TaskSpace(n) ==
    [k \in 1..Pow2(n) |-> [i \in 1..n |-> ((k - 1) \div Pow2(n - i)) % 2 = 1]]

\* [(location, task) for location in self.locations for task in taskSpace]
TaskworldStates(locs, taskSpace) ==
    [k \in 1..(Len(locs) * Len(taskSpace)) |->
        <<locs[((k - 1) \div Len(taskSpace)) + 1],
          taskSpace[((k - 1) % Len(taskSpace)) + 1]>>]

TaskworldActions(can_stay) ==
    IF can_stay THEN <<"up", "right", "down", "left", "operate", "stay">>
    ELSE <<"up", "right", "down", "left", "operate">>

\* Variant: operate flips the completion of the task instead of setting it.
Taskworld_set_transitions_Toggle(sS, aS, locs, blocked, taskLocs, T, state, action) ==
    LET location == state[1]
        target == <<location[1] + DeltaX(action), location[2] + DeltaY(action)>>
        next == IF target \notin Range(locs) \/ target \in blocked
                THEN location ELSE target
        idx == (CHOOSE i \in DOMAIN taskLocs :
                    taskLocs[i] = location /\ \A j \in 1..(i - 1) : taskLocs[j] # location)
        task == IF action = "operate" /\ location \in Range(taskLocs)
                THEN [state[2] EXCEPT ![idx] = ~state[2][idx]]
                ELSE state[2]
    IN TSet(T, SpaceIndex(sS, state), SpaceIndex(aS, action),
            SpaceIndex(sS, <<next, task>>), One)

\* Variant: an action other than operate clears the completion vector.
Taskworld_set_transitions_MoveClears(sS, aS, locs, blocked, taskLocs, T, state, action) ==
    LET location == state[1]
        target == <<location[1] + DeltaX(action), location[2] + DeltaY(action)>>
        next == IF target \notin Range(locs) \/ target \in blocked
                THEN location ELSE target
        task == IF action = "operate" /\ location \in Range(taskLocs)
                THEN [state[2] EXCEPT ![ListIndex(taskLocs, location) + 1] = TRUE]
                ELSE IF action = "operate" THEN state[2]
                ELSE [i \in DOMAIN state[2] |-> FALSE]
    IN TSet(T, SpaceIndex(sS, state), SpaceIndex(aS, action),
            SpaceIndex(sS, <<next, task>>), One)

Taskworld_set_transitions(sS, aS, locs, blocked, taskLocs, T, state, action) ==
    LET location == state[1]
        target == <<location[1] + DeltaX(action), location[2] + DeltaY(action)>>
        next == IF target \notin Range(locs) \/ target \in blocked
                THEN location ELSE target
        task == IF action = "operate" /\ location \in Range(taskLocs)
                THEN [state[2] EXCEPT ![ListIndex(taskLocs, location) + 1] = TRUE]
                ELSE state[2]
    IN TSet(T, SpaceIndex(sS, state), SpaceIndex(aS, action),
            SpaceIndex(sS, <<next, task>>), One)

Taskworld_populate(sS, aS, locs, blocked, taskLocs, T) ==
    [s \in DOMAIN T |-> [a \in DOMAIN T[s] |->
        Taskworld_set_transitions(sS, aS, locs, blocked, taskLocs, T,
            SpaceElement(sS, s), SpaceElement(aS, a))[s][a]]]

\* ------------------------------------------------------ constructor inputs
\* Worlds that are stepped (Spec) have at most MaxCells locations, Taskworlds
\* among them at most MaxTaskCells; worlds that are only built (SpecBuild)
\* have at most MaxBuildCells, Taskworlds among them at most MaxTaskBuildCells.
MaxTaskCells == 3
MaxBuildCells == 9
MaxTaskBuildCells == 4

ShapesUpTo(n) == {shp \in (1..n) \X (1..n) : shp[1] * shp[2] <= n}

\* Shapes of a mask for a world of shape shp: the same shape, and one row or
\* column fewer or more.
MaskShapes(shp) ==
    {shp, <<shp[1] - 1, shp[2]>>, <<shp[1] + 1, shp[2]>>,
          <<shp[1], shp[2] - 1>>, <<shp[1], shp[2] + 1>>}

MaskCells(ms) == (0..(ms[1] - 1)) \X (0..(ms[2] - 1))

RECURSIVE SubsetsUpTo(_, _)
SubsetsUpTo(set, k) ==
    IF k = 0 THEN {{}}
    ELSE LET smaller == SubsetsUpTo(set, k - 1)
         IN smaller \cup {s \cup {e} : s \in smaller, e \in set}

\* Masks of the world's shape have up to MaxBlocked non-zero cells, masks of
\* another shape at most one.
Masks(shp) ==
    {NoMask}
    \cup {[given |-> TRUE, shape |-> shp, nonzero |-> nz] :
            nz \in SubsetsUpTo(MaskCells(shp), MaxBlocked)}
    \cup UNION {{[given |-> TRUE, shape |-> ms, nonzero |-> nz] :
                    nz \in SubsetsUpTo(MaskCells(ms), 1)} :
                ms \in MaskShapes(shp) \ {shp}}

OkMasks(shp) == {mask \in Masks(shp) : ~MaskIndexError(mask, GridCells(shp))}

\* The masks a world is built from: when anyShape, also those of another
\* shape that raise no IndexError.
WorldMasks(shp, anyShape) ==
    {mask \in OkMasks(shp) : anyShape \/ ~mask.given \/ mask.shape = shp}

Noises == 0..NoiseDen

\* Task location lists: cells of the grid in any order, distinct ("one task
\* per grid cell") unless repeats.
TaskLocationLists(shp, repeats) ==
    UNION {{tl \in [1..n -> Range(GridCells(shp))] :
                repeats \/ \A i, j \in 1..n : i # j => tl[i] # tl[j]} : n \in 0..MaxTasks}

ClassNames == {"GraphWorld", "Gridworld", "NoisyGridworld", "Taskworld"}

\* ------------------------------------------------------------ constructors
\* The fields a constructor sets, but for initial_state and current_state, and
\* whether the shape of the blocked argument disagrees with the shape of the
\* world.
\* GraphWorld.__init__
GraphWorldBuild(shp, r, can_stay, mask) ==
    LET states == GridCells(shp)
        blocked == BlockedCells(mask, states)
        sS == DiscreteSpace(RemoveAll(states, blocked))
        aS == DiscreteSpace(GraphWorldActions(r, can_stay))
    IN [cls |-> "GraphWorld", shape |-> shp, radius |-> r, blocked_cells |-> blocked,
        noise |-> None, taskLocations |-> None, locations |-> None,
        stateSpace |-> sS, actionSpace |-> aS,
        mask_mismatch |-> mask.given /\ mask.shape # shp,
        transition |-> GraphWorld_populate(sS, aS, blocked,
                            NewTransition(SpaceSize(sS), SpaceSize(aS)))]

\* Gridworld.__init__
GridworldBuild(shp, can_stay, mask) ==
    LET states == GridCells(shp)
        blocked == BlockedCells(mask, states)
        sS == DiscreteSpace(RemoveAll(states, blocked))
        aS == DiscreteSpace(GridworldActions(can_stay))
    IN [cls |-> "Gridworld", shape |-> shp, radius |-> None, blocked_cells |-> blocked,
        noise |-> None, taskLocations |-> None, locations |-> None,
        stateSpace |-> sS, actionSpace |-> aS,
        mask_mismatch |-> mask.given /\ mask.shape # shp,
        transition |-> Gridworld_populate(sS, aS, blocked,
                            NewTransition(SpaceSize(sS), SpaceSize(aS)))]

\* NoisyGridworld.__init__
NoisyGridworldBuild(shp, can_stay, mask, n) ==
    LET g == GridworldBuild(shp, can_stay, mask)
    IN [g EXCEPT !.cls = "NoisyGridworld", !.noise = n,
                 !.transition = NoisyGridworld_update(g.stateSpace, g.actionSpace,
                                    g.blocked_cells, g.transition, n)]

\* Taskworld.__init__
TaskworldBuild(shp, taskLocs, can_stay, mask) ==
    LET cells == GridCells(shp)
        taskSpace == TaskSpace(Len(taskLocs))
        blocked == BlockedCells(mask, cells)
        locs == RemoveAll(cells, blocked)
        sS == DiscreteSpace(TaskworldStates(locs, taskSpace))
        aS == DiscreteSpace(TaskworldActions(can_stay))
    IN [cls |-> "Taskworld", shape |-> shp, radius |-> None, blocked_cells |-> blocked,
        noise |-> None, taskLocations |-> taskLocs, locations |-> locs,
        stateSpace |-> sS, actionSpace |-> aS,
        mask_mismatch |-> mask.given /\ mask.shape # shp,
        transition |-> Taskworld_populate(sS, aS, locs, blocked, taskLocs,
                            NewTransition(SpaceSize(sS), SpaceSize(aS)))]

GraphWorlds(shapes, anyShape) ==
    UNION {{GraphWorldBuild(shp, r, can_stay, mask) :
                r \in 0..MaxRadius, can_stay \in BOOLEAN, mask \in WorldMasks(shp, anyShape)} :
           shp \in shapes}

Gridworlds(shapes, anyShape) ==
    UNION {{GridworldBuild(shp, can_stay, mask) :
                can_stay \in BOOLEAN, mask \in WorldMasks(shp, anyShape)} :
           shp \in shapes}

NoisyGridworlds(shapes, anyShape) ==
    UNION {{NoisyGridworldBuild(shp, can_stay, mask, n) :
                can_stay \in BOOLEAN, mask \in WorldMasks(shp, anyShape), n \in Noises} :
           shp \in shapes}

Taskworlds(shapes, repeats, anyShape) ==
    UNION {{TaskworldBuild(shp, taskLocs, can_stay, mask) :
                taskLocs \in TaskLocationLists(shp, repeats), can_stay \in BOOLEAN,
                mask \in WorldMasks(shp, anyShape)} :
           shp \in shapes}

\* The values of the initial_state argument: None, and when givenToo, every
\* coordinate of the grid (for a Taskworld with no task complete).
InitialStates(w, givenToo) ==
    {NotGiven} \cup
    (IF ~givenToo THEN {}
     ELSE IF w.cls = "Taskworld"
          THEN Given(Range(GridCells(w.shape)) \X {[i \in 1..Len(w.taskLocations) |-> FALSE]})
          ELSE Given(Range(GridCells(w.shape))))

\* ------------------------------------------------------------------ state
NoCall == [op |-> "none", arg |-> None, value |-> None, error |-> None]

Init ==
    /\ cls = None
    /\ shape = None
    /\ radius = None
    /\ blocked_cells = {}
    /\ noise = None
    /\ taskLocations = None
    /\ locations = None
    /\ stateSpace = None
    /\ actionSpace = None
    /\ transition = None
    /\ terminalStates = {}
    /\ initial_state = None
    /\ current_state = None
    /\ result = NoCall

Unconstructed == cls = None /\ result.op = "none"
Constructed == cls # None

\* DiscreteEnvironment.__init__ and the fields the builder sets around it.
Construct(w, initial) ==
    /\ ~EnvInitError(w.stateSpace, initial)
    /\ cls' = w.cls
    /\ shape' = w.shape
    /\ radius' = w.radius
    /\ blocked_cells' = w.blocked_cells
    /\ noise' = w.noise
    /\ taskLocations' = w.taskLocations
    /\ locations' = w.locations
    /\ stateSpace' = w.stateSpace
    /\ actionSpace' = w.actionSpace
    /\ transition' = w.transition
    /\ terminalStates' = {}
    /\ initial_state' = EnvInitialState(w.stateSpace, initial)
    /\ current_state' = EnvInitialState(w.stateSpace, initial)
    /\ result' = [op |-> w.cls, arg |-> w.mask_mismatch, value |-> None, error |-> None]

\* GraphWorld(shape, radius, initial_state, can_stay, blocked)
GraphWorldInit(shapes, givenToo, anyShape) ==
    /\ Unconstructed
    /\ \E w \in GraphWorlds(shapes, anyShape) :
         \E initial \in InitialStates(w, givenToo) : Construct(w, initial)

\* Gridworld(shape, initial_state, can_stay, blocked)
GridworldInit(shapes, givenToo, anyShape) ==
    /\ Unconstructed
    /\ \E w \in Gridworlds(shapes, anyShape) :
         \E initial \in InitialStates(w, givenToo) : Construct(w, initial)

\* NoisyGridworld(shape, initial_state, can_stay, blocked, noise)
NoisyGridworldInit(shapes, givenToo, anyShape) ==
    /\ Unconstructed
    /\ \E w \in NoisyGridworlds(shapes, anyShape) :
         \E initial \in InitialStates(w, givenToo) : Construct(w, initial)

\* Taskworld(shape, taskLocations, initial_state, can_stay, blocked)
TaskworldInit(shapes, givenToo, repeats, anyShape) ==
    /\ Unconstructed
    /\ \E w \in Taskworlds(shapes, repeats, anyShape) :
         \E initial \in InitialStates(w, givenToo) : Construct(w, initial)

\* A constructor that raises leaves no object behind.
ConstructorRaises(name, shp, err) ==
    /\ result' = [op |-> name, arg |-> shp, value |-> None, error |-> err]
    /\ UNCHANGED <<fields, current_state>>

\* A mask smaller than the world: blocked[x, y] raises IndexError.
ConstructMaskError(shapes) ==
    /\ Unconstructed
    /\ \E name \in ClassNames, shp \in shapes :
         /\ \E mask \in Masks(shp) : MaskIndexError(mask, GridCells(shp))
         /\ ConstructorRaises(name, shp, "IndexError")

\* Every cell blocked and no initial_state given: stateSpace[0] raises.
ConstructEmptyError(shapes) ==
    /\ Unconstructed
    /\ \E name \in ClassNames, shp \in shapes :
         /\ \E mask \in OkMasks(shp) :
              EnvInitError(DiscreteSpace(RemoveAll(GridCells(shp), BlockedCells(mask, GridCells(shp)))),
                           NotGiven)
         /\ ConstructorRaises(name, shp, "LookupError")

\* ------------------------------------------------------------ reset, act
\* Variant: reset leaves the cursor where it is.
Reset_KeepCursor ==
    /\ Constructed
    /\ current_state' = current_state
    /\ result' = [op |-> "reset", arg |-> None, value |-> None, error |-> None]
    /\ UNCHANGED fields

\* DiscreteEnvironment.reset()
Reset ==
    /\ Constructed
    /\ current_state' = initial_state
    /\ result' = [op |-> "reset", arg |-> None, value |-> None, error |-> None]
    /\ UNCHANGED fields

\* DiscreteEnvironment.act(action), action in the action space, returning.
Act ==
    /\ Constructed
    /\ \E action \in SpaceElements(actionSpace) :
         /\ SpaceContains(stateSpace, current_state)
         /\ \E nextStateNum \in TSample(transition,
                                       SpaceIndex(stateSpace, current_state),
                                       SpaceIndex(actionSpace, action)) :
              /\ current_state' = SpaceElement(stateSpace, nextStateNum)
              /\ result' = [op |-> "act", arg |-> action,
                            value |-> SpaceElement(stateSpace, nextStateNum),
                            error |-> None]
    /\ UNCHANGED fields

\* DiscreteEnvironment.act(action), action in the action space, with
\* self.stateSpace(self.current_state) raising LookupError.
ActLookupError ==
    /\ Constructed
    /\ \E action \in SpaceElements(actionSpace) :
         /\ ~SpaceContains(stateSpace, current_state)
         /\ result' = [op |-> "act", arg |-> action, value |-> None,
                       error |-> "LookupError"]
    /\ UNCHANGED <<fields, current_state>>

\* Actions that are not elements of the action space: offsets for a
\* GraphWorld, names for the other worlds.
InvalidActions ==
    IF cls = "GraphWorld"
    THEN {<<0, 0>>, <<radius + 1, 0>>, <<0, -(radius + 1)>>} \ SpaceElements(actionSpace)
    ELSE {"up", "right", "down", "left", "stay", "operate", "jump"}
            \ SpaceElements(actionSpace)

\* Variant: the failing call puts the cursor back on the initial state.
ActInvalidAction_Moves ==
    /\ Constructed
    /\ \E action \in InvalidActions :
         result' = [op |-> "act", arg |-> action, value |-> None,
                    error |-> "LookupError"]
    /\ current_state' = initial_state
    /\ UNCHANGED fields

\* DiscreteEnvironment.act(action), action not in the action space:
\* self.stateSpace(self.current_state) or self.actionSpace(action) raises
\* LookupError before the cursor is assigned.
ActInvalidAction ==
    /\ Constructed
    /\ \E action \in InvalidActions :
         result' = [op |-> "act", arg |-> action, value |-> None,
                    error |-> "LookupError"]
    /\ UNCHANGED <<fields, current_state>>

\* ------------------------------------------------------- terminal states
\* The terminal-state set holds at most MaxTerminal values.
MaxTerminal == 2

\* The values passed as terminal states: the coordinates of the grid, blocked
\* or not (for a Taskworld with no task complete); addTerminalState accepts any
\* value.
TerminalCandidates ==
    IF cls = "Taskworld"
    THEN Range(GridCells(shape)) \X {[i \in 1..Len(taskLocations) |-> FALSE]}
    ELSE Range(GridCells(shape))

\* Variant: the state is not added.
AddedTerminalState_Dropped(terminal, state) == terminal

\* self.terminalStates.add(state)
AddedTerminalState(terminal, state) == terminal \cup {state}

\* DiscreteEnvironment.addTerminalState(state)
AddTerminalState ==
    /\ Constructed
    /\ \E state \in TerminalCandidates :
         /\ Cardinality(terminalStates \cup {state}) <= MaxTerminal
         /\ terminalStates' = AddedTerminalState(terminalStates, state)
         /\ result' = [op |-> "addTerminalState", arg |-> state, value |-> None,
                       error |-> None]
    /\ UNCHANGED <<cls, shape, radius, blocked_cells, noise, taskLocations, locations,
                   stateSpace, actionSpace, transition, initial_state, current_state>>

\* DiscreteEnvironment.isTerminal(state)
IsTerminal ==
    /\ Constructed
    /\ \E state \in TerminalCandidates :
         result' = [op |-> "isTerminal", arg |-> state,
                    value |-> (state \in terminalStates), error |-> None]
    /\ UNCHANGED <<fields, current_state>>

\* Variant: the earlier terminal states are kept.
UpdatedTerminalStates_NoClear(terminal, tasks) == terminal \cup tasks

\* self.world.terminalStates.clear(), then addTerminalState(task) for every
\* key of tasks.tasks
UpdatedTerminalStates(terminal, tasks) ==
    LET cleared == {}
    IN cleared \cup tasks

\* TaskWorld.updateTasks(tasks); tasks is the set of the keys of tasks.tasks.
UpdateTasks ==
    /\ Constructed
    /\ \E tasks \in SubsetsUpTo(TerminalCandidates, MaxTerminal) :
         /\ terminalStates' = UpdatedTerminalStates(terminalStates, tasks)
         /\ result' = [op |-> "updateTasks", arg |-> tasks, value |-> None,
                       error |-> None]
    /\ UNCHANGED <<cls, shape, radius, blocked_cells, noise, taskLocations, locations,
                   stateSpace, actionSpace, transition, initial_state, current_state>>

\* ---------------------------------------------------------- specifications
\* The environment constructed and stepped.
Next ==
    \/ GraphWorldInit(ShapesUpTo(MaxCells), TRUE, FALSE)
    \/ GridworldInit(ShapesUpTo(MaxCells), TRUE, FALSE)
    \/ NoisyGridworldInit(ShapesUpTo(MaxCells), TRUE, FALSE)
    \/ TaskworldInit(ShapesUpTo(MaxTaskCells), TRUE, FALSE, FALSE)
    \/ ConstructMaskError(ShapesUpTo(MaxCells))
    \/ ConstructEmptyError(ShapesUpTo(MaxCells))
    \/ Reset
    \/ Act
    \/ ActLookupError

Spec == Init /\ [][Next]_vars

\* The builders alone, over larger worlds, with the default initial state.
NextBuild ==
    \/ GraphWorldInit(ShapesUpTo(MaxBuildCells), FALSE, FALSE)
    \/ GridworldInit(ShapesUpTo(MaxBuildCells), FALSE, FALSE)
    \/ NoisyGridworldInit(ShapesUpTo(MaxBuildCells), FALSE, FALSE)
    \/ TaskworldInit(ShapesUpTo(MaxTaskCells), FALSE, FALSE, FALSE)
    \/ ConstructMaskError(ShapesUpTo(MaxBuildCells))
    \/ ConstructEmptyError(ShapesUpTo(MaxBuildCells))

SpecBuild == Init /\ [][NextBuild]_vars

\* The Taskworld builder alone, over larger Taskworlds and task location
\* lists that may name a cell twice.
NextTask ==
    \/ TaskworldInit(ShapesUpTo(MaxTaskBuildCells), FALSE, TRUE, FALSE)
    \/ ConstructMaskError(ShapesUpTo(MaxTaskBuildCells))
    \/ ConstructEmptyError(ShapesUpTo(MaxTaskBuildCells))

SpecTask == Init /\ [][NextTask]_vars

\* Every method of the environment, on the smallest worlds.
MaxEnvCells == 2

NextEnv ==
    \/ GraphWorldInit(ShapesUpTo(MaxEnvCells), TRUE, TRUE)
    \/ GridworldInit(ShapesUpTo(MaxEnvCells), TRUE, TRUE)
    \/ NoisyGridworldInit(ShapesUpTo(MaxEnvCells), TRUE, TRUE)
    \/ ConstructMaskError(ShapesUpTo(MaxEnvCells))
    \/ ConstructEmptyError(ShapesUpTo(MaxEnvCells))
    \/ Reset
    \/ Act
    \/ ActLookupError
    \/ ActInvalidAction
    \/ AddTerminalState
    \/ IsTerminal
    \/ UpdateTasks

SpecEnv == Init /\ [][NextEnv]_vars

\* =================================================================== claims
States == SpaceElements(stateSpace)
Actions == SpaceElements(actionSpace)

\* The kernel entry of (state, action, nextState), by their elements.
Prob(s, a, s2) ==
    TGet(transition, SpaceIndex(stateSpace, s), SpaceIndex(actionSpace, a),
         SpaceIndex(stateSpace, s2))

\* The grid coordinates of a world of the given shape.
CellsOf(shp) == (0..(shp[1] - 1)) \X (0..(shp[2] - 1))

\* The location of a state: the state itself, or the first component of a
\* Taskworld state.
LocationOf(s) == IF cls = "Taskworld" THEN s[1] ELSE s

Shape3x3 == shape = <<3, 3>>

\* The sum of the probabilities of a row.
RECURSIVE SumOver(_, _)
SumOver(f, dom) == IF dom = {} THEN 0
                   ELSE LET d == CHOOSE d \in dom : TRUE
                        IN f[d] + SumOver(f, dom \ {d})
RowSum(T, s, a) == SumOver(T[s][a], DOMAIN T[s][a])

\* C1: in every built world, for every (state, action), the probabilities of
\* the kernel row over all next states sum to exactly 1.
C1_RowsSumToOne ==
    Constructed =>
        \A s \in DOMAIN transition : \A a \in DOMAIN transition[s] :
            RowSum(transition, s, a) = One

\* A 3x3 NoisyGridworld with a blocked cell and a noise strictly between 0 and 1.
C1_Witness ==
    /\ cls = "NoisyGridworld"
    /\ Shape3x3
    /\ blocked_cells # {}
    /\ noise > 0 /\ noise < NoiseDen

\* C2: no blocked coordinate is (the location of) a state, and no kernel
\* entry with non-zero probability leads to a blocked coordinate; every index
\* a row mentions is the index of a state.
C2_BlockedNeverAState ==
    Constructed =>
        /\ \A s \in States : LocationOf(s) \notin blocked_cells
        /\ \A s \in DOMAIN transition : \A a \in DOMAIN transition[s] :
             \A s2 \in DOMAIN transition[s][a] :
                transition[s][a][s2] > 0 =>
                    /\ s2 \in 0..(SpaceSize(stateSpace) - 1)
                    /\ LocationOf(SpaceElement(stateSpace, s2)) \notin blocked_cells

\* A Taskworld with a blocked cell, a task and at least one state.
C2_Witness ==
    /\ cls = "Taskworld"
    /\ blocked_cells # {}
    /\ Len(taskLocations) > 0
    /\ SpaceSize(stateSpace) > 0

\* C3: after construction with any initial_state argument, and after any
\* sequence of reset and act calls, the current state is an element of the
\* state space.
C3_CursorInStateSpace ==
    Constructed => SpaceContains(stateSpace, current_state)


\* C4: in a GraphWorld the actions are the offsets of [-radius, radius]^2
\* (without the zero offset when staying is not allowed), and for every state
\* and action the row has exactly one entry equal to 1 and all others 0: at
\* state + action when that coordinate is in bounds and unblocked, at the
\* state itself otherwise.
C4_GraphWorldSuccessor ==
    cls = "GraphWorld" =>
        /\ States = CellsOf(shape) \ blocked_cells
        /\ Actions \subseteq (-radius..radius) \X (-radius..radius)
        /\ ((-radius..radius) \X (-radius..radius)) \ {<<0, 0>>} \subseteq Actions
        /\ \A s \in States : \A a \in Actions :
             LET target == <<s[1] + a[1], s[2] + a[2]>>
                 expected == IF target \in CellsOf(shape) /\ target \notin blocked_cells
                             THEN target ELSE s
             IN \A s2 \in States : Prob(s, a, s2) = IF s2 = expected THEN One ELSE 0

\* A 3x3 GraphWorld of radius 1 with a blocked cell.
C4_Witness ==
    /\ cls = "GraphWorld"
    /\ Shape3x3
    /\ radius = 1
    /\ blocked_cells # {}

\* The cell a cardinal action aims at.
CardinalTarget(s, a) ==
    CASE a = "left" -> <<s[1] - 1, s[2]>>
      [] a = "right" -> <<s[1] + 1, s[2]>>
      [] a = "up" -> <<s[1], s[2] - 1>>
      [] a = "down" -> <<s[1], s[2] + 1>>
      [] OTHER -> s

\* C5: in a Gridworld a cardinal action whose target is out of bounds or
\* blocked is a self-transition with probability 1 ('left' from (0, y) stays
\* at (0, y)), one whose target is in bounds and unblocked leads there with
\* probability 1, and 'stay' leads to the state itself with probability 1.
C5_GridworldSuccessor ==
    cls = "Gridworld" =>
        /\ States = CellsOf(shape) \ blocked_cells
        /\ {"up", "right", "down", "left"} \subseteq Actions
        /\ Actions \subseteq {"up", "right", "down", "left", "stay"}
        /\ \A s \in States : \A a \in Actions :
             LET target == CardinalTarget(s, a)
                 expected == IF target \in CellsOf(shape) /\ target \notin blocked_cells
                             THEN target ELSE s
             IN \A s2 \in States : Prob(s, a, s2) = IF s2 = expected THEN One ELSE 0
        /\ \A s \in States : s[1] = 0 => Prob(s, "left", s) = One

\* A 3x3 Gridworld with a blocked cell and the 'stay' action.
C5_Witness ==
    /\ cls = "Gridworld"
    /\ Shape3x3
    /\ blocked_cells # {}
    /\ "stay" \in Actions

\* The Gridworld of the same shape, blocked cells and can_stay setting.
SameGridworld ==
    GridworldBuild(shape, "stay" \in Actions,
                   [given |-> TRUE, shape |-> shape, nonzero |-> blocked_cells])

\* C6: for noise = 0 the kernel of a NoisyGridworld equals, cell for cell, the
\* kernel of the Gridworld of the same shape, blocked mask and can_stay.
C6_NoNoiseIsGridworld ==
    (cls = "NoisyGridworld" /\ noise = 0) =>
        /\ stateSpace = SameGridworld.stateSpace
        /\ actionSpace = SameGridworld.actionSpace
        /\ \A s \in DOMAIN transition : \A a \in DOMAIN transition[s] :
             \A s2 \in 0..(SpaceSize(stateSpace) - 1) :
                TGet(transition, s, a, s2) = TGet(SameGridworld.transition, s, a, s2)

\* A 3x3 NoisyGridworld with noise 0 and a blocked cell.
C6_Witness ==
    /\ cls = "NoisyGridworld"
    /\ noise = 0
    /\ Shape3x3
    /\ blocked_cells # {}

\* The state itself and its in-bounds, unblocked cardinal neighbours.
DriftTargets(s) ==
    {t \in {s, <<s[1], s[2] - 1>>, <<s[1], s[2] + 1>>, <<s[1] - 1, s[2]>>, <<s[1] + 1, s[2]>>} :
        t \in CellsOf(shape) /\ t \notin blocked_cells}

\* C7: for noise = 1 every row of a NoisyGridworld is the uniform distribution
\* over the valid drift targets of the state, whatever the action.
C7_FullNoiseIsUniform ==
    (cls = "NoisyGridworld" /\ noise = NoiseDen) =>
        \A s \in States : \A a \in Actions : \A s2 \in States :
            Prob(s, a, s2) * Cardinality(DriftTargets(s)) =
                IF s2 \in DriftTargets(s) THEN One ELSE 0

\* A 3x3 NoisyGridworld with noise 1 and no blocked cell: the centre has five
\* valid drift targets, a corner three.
C7_Witness ==
    /\ cls = "NoisyGridworld"
    /\ noise = NoiseDen
    /\ Shape3x3
    /\ blocked_cells = {}

\* C8: a Taskworld has (locations - blocked locations) * 2^numTasks states,
\* and every (unblocked location, completion vector) pair is a state exactly
\* once.
C8_TaskworldStateCount ==
    cls = "Taskworld" =>
        /\ SpaceSize(stateSpace) =
              (shape[1] * shape[2] - Cardinality(blocked_cells)) * (2 ^ Len(taskLocations))
        /\ (CellsOf(shape) \ blocked_cells) \X [1..Len(taskLocations) -> BOOLEAN]
              \subseteq States
        /\ Cardinality(States) = SpaceSize(stateSpace)

\* A 2x2 Taskworld with two tasks and a blocked cell.
C8_Witness ==
    /\ cls = "Taskworld"
    /\ shape = <<2, 2>>
    /\ Len(taskLocations) = 2
    /\ blocked_cells # {}

\* The states 'operate' can lead to from s.
OperateSuccessors(s) ==
    LET row == transition[SpaceIndex(stateSpace, s)][SpaceIndex(actionSpace, "operate")]
    IN {SpaceElement(stateSpace, n) : n \in {m \in DOMAIN row : row[m] > 0}}

\* Every task located at the location of s is complete in s (none is, at a
\* location without a task).
NothingToOperate(s) ==
    \A i \in DOMAIN taskLocations : taskLocations[i] = s[1] => s[2][i]

\* C9: 'operate' is idempotent: the 'operate'-successor of the
\* 'operate'-successor of s is that successor; operating where no task is
\* located, or where the task is already complete, leaves the completion
\* vector unchanged.
C9_OperateIdempotent ==
    cls = "Taskworld" =>
        \A s \in States :
            LET after == OperateSuccessors(s)
            IN /\ Cardinality(after) = 1
               /\ \A s1 \in after :
                    /\ OperateSuccessors(s1) = {s1}
                    /\ NothingToOperate(s) => s1[2] = s[2]

\* A Taskworld with a state where 'operate' completes a task.
C9_Witness ==
    /\ cls = "Taskworld"
    /\ Len(taskLocations) = 2
    /\ \E s \in States : \E s1 \in OperateSuccessors(s) : s1[2] # s[2]

\* C10: act(action) with an action of the action space sets the current state
\* to the sampled successor and returns that same value, a state whose kernel
\* probability in the row (previous current state, action) is greater than 0.
C10_ActReturnsSuccessor ==
    [][(Constructed /\ result'.op = "act" /\ SpaceContains(actionSpace, result'.arg)) =>
          /\ result'.error = None
          /\ current_state' = result'.value
          /\ SpaceContains(stateSpace, current_state)
          /\ Prob(current_state, result'.arg, current_state') > 0]_vars

\* C11: reset() sets the current state to the initial state designated at
\* construction, whatever act calls came before (no call changes the
\* designated initial state); a reset right after a reset changes nothing;
\* reset changes neither the kernel, the state and action spaces, nor the
\* terminal-state set.
C11_ResetRestoresInitial ==
    [][/\ Constructed => initial_state' = initial_state
       /\ result'.op = "reset" =>
             /\ current_state' = initial_state
             /\ UNCHANGED <<transition, stateSpace, actionSpace, terminalStates>>
       /\ (result.op = "reset" /\ result'.op = "reset") => UNCHANGED vars]_vars

\* A reset with a non-empty terminal-state set, in a world where an act from
\* the initial state leads away from it.
C11_Witness ==
    /\ Constructed
    /\ result.op = "reset"
    /\ terminalStates # {}
    /\ SpaceContains(stateSpace, initial_state)
    /\ \E a \in Actions : \E s2 \in States \ {initial_state} :
            Prob(initial_state, a, s2) > 0

\* C12: act(action) with an action that is not an element of the action space
\* fails with LookupError and leaves the current state, the kernel and the
\* terminal-state set unchanged.
C12_InvalidActionLookupError ==
    [][(Constructed /\ result'.op = "act"
            /\ ~SpaceContains(actionSpace, result'.arg)) =>
          /\ result'.error = "LookupError"
          /\ UNCHANGED <<current_state, transition, terminalStates>>]_vars

\* An act with an invalid action, the cursor a state other than the initial
\* state and the terminal-state set not empty.
C12_Witness ==
    /\ Constructed
    /\ result.op = "act"
    /\ ~SpaceContains(actionSpace, result.arg)
    /\ result.error = "LookupError"
    /\ SpaceContains(stateSpace, current_state)
    /\ current_state # initial_state
    /\ terminalStates # {}

\* C13: a constructor called with a blocked mask whose shape disagrees with
\* the shape of the world (smaller or larger in either dimension) fails: no
\* world is built from such a mask.
C13_MismatchedMaskRaises ==
    (Constructed /\ result.op = cls) => ~result.arg

\* The successor of the Gridworld rule: the cell the action aims at when it is
\* in bounds and unblocked, the state itself otherwise.
GridworldSuccessor(s, a) ==
    IF CardinalTarget(s, a) \in CellsOf(shape) \ blocked_cells
    THEN CardinalTarget(s, a) ELSE s

\* C14: every row of a NoisyGridworld is (1 - noise) times the Gridworld row
\* plus noise times the uniform distribution over the valid drift targets: the
\* deterministic successor has (1 - noise) + noise / |valid|, every other
\* valid drift target noise / |valid|, every other state 0. (Both sides are
\* multiplied by NoiseDen * |valid|; noise is the numerator over NoiseDen.)
C14_NoisyRow ==
    cls = "NoisyGridworld" =>
        \A s \in States : \A a \in Actions : \A s2 \in States :
            LET count == Cardinality(DriftTargets(s))
            IN Prob(s, a, s2) * NoiseDen * count =
                 (IF s2 = GridworldSuccessor(s, a)
                  THEN One * (NoiseDen - noise) * count ELSE 0)
                 + (IF s2 \in DriftTargets(s) THEN One * noise ELSE 0)

\* A 3x3 NoisyGridworld with a blocked cell and a noise strictly between 0
\* and 1.
C14_Witness ==
    /\ cls = "NoisyGridworld"
    /\ noise > 0
    /\ noise < NoiseDen
    /\ Shape3x3
    /\ blocked_cells # {}

\* The kernel of a Taskworld: an action other than 'operate' keeps the
\* completion vector and moves the location by the Gridworld rule; 'operate'
\* keeps the location and sets exactly the bit of the task located there.
TaskworldKernelFrame ==
    cls = "Taskworld" =>
        \A s \in States : \A a \in Actions : \A s2 \in States :
            Prob(s, a, s2) > 0 =>
                IF a = "operate"
                THEN /\ s2[1] = s[1]
                     /\ \A i \in DOMAIN taskLocations :
                            s2[2][i] = (s[2][i] \/ taskLocations[i] = s[1])
                ELSE /\ s2[2] = s[2]
                     /\ s2[1] = GridworldSuccessor(s[1], a)

\* An act call that returns never turns a true completion bit false.
TaskworldActKeepsCompleted ==
    (cls = "Taskworld" /\ result'.op = "act" /\ result'.error = None) =>
        \A i \in DOMAIN taskLocations : current_state[2][i] => current_state'[2][i]

\* C15: in a Taskworld every action other than 'operate' leaves the completion
\* vector unchanged and moves the location by the Gridworld rule; 'operate'
\* leaves the location unchanged and sets to true exactly the bit of the task
\* located there, changing no other bit; along act calls a completion bit
\* that is true never becomes false. (The kernel is looked at when the
\* constructor returns; no later step changes it.)
C15_TaskworldFrame ==
    [][/\ Unconstructed => TaskworldKernelFrame'
       /\ cls = "Taskworld" => UNCHANGED <<cls, taskLocations, stateSpace, actionSpace,
                                          transition>>
       /\ TaskworldActKeepsCompleted]_vars

\* After completing a task the agent has moved away from its location, the
\* task still complete.
C15_Witness ==
    /\ cls = "Taskworld"
    /\ result.op = "act"
    /\ result.error = None
    /\ result.arg # "operate"
    /\ \E i \in DOMAIN taskLocations :
            current_state[2][i] /\ current_state[1] # taskLocations[i]

\* C16: addTerminalState and updateTasks change only the terminal-state set,
\* never the kernel or the current state: addTerminalState adds its state;
\* after updateTasks(tasks) the terminal-state set is exactly the set of task
\* states (earlier terminal states are dropped); isTerminal(s) is true exactly
\* for the members of the set and changes nothing; act from a terminal state
\* still moves to a state of positive probability in the unchanged kernel row.
C16_TerminalStatesFrame ==
    [][/\ result'.op \in {"addTerminalState", "updateTasks"} =>
             UNCHANGED <<transition, stateSpace, actionSpace, initial_state,
                         current_state>>
       /\ result'.op = "addTerminalState" =>
             terminalStates' = terminalStates \cup {result'.arg}
       /\ result'.op = "updateTasks" => terminalStates' = result'.arg
       /\ result'.op = "isTerminal" =>
             /\ result'.value = (result'.arg \in terminalStates)
             /\ UNCHANGED <<fields, current_state>>
       /\ (Constructed /\ result'.op = "act" /\ result'.error = None) =>
             /\ UNCHANGED <<transition, terminalStates>>
             /\ Prob(current_state, result'.arg, current_state') > 0]_vars

\* An act that left a terminal state for a state that is not terminal.
C16_Witness ==
    /\ Constructed
    /\ result.op = "act"
    /\ result.error = None
    /\ current_state \notin terminalStates
    /\ \E s \in terminalStates :
            /\ SpaceContains(stateSpace, s)
            /\ Prob(s, result.arg, current_state) > 0

====
